---- MODULE Spec2Model ----
(***************************************************************************)
(* A model of skynet-rust: the in-memory Memory (core/agent.rs), the agent *)
(* run loop and process_cycle (core/agent.rs), the request the Anthropic   *)
(* provider builds (providers/anthropic.rs) and the Pulse heartbeat        *)
(* monitor with its run loop (skynet/pulse.rs).                            *)
(*                                                                         *)
(* Text is a sequence of characters.  Durations and instants are natural   *)
(* numbers of clock ticks.                                                 *)
(***************************************************************************)
EXTENDS Integers, Sequences, FiniteSets, TLC

VARIABLES
    \* InMemoryStorage and the Message id generator
    messages,        \* InMemoryStorage.messages: the stored Vec<Message>
    next_id,         \* the next fresh Message id (uuid::Uuid::new_v4)
    mem_result,      \* what the last retrieve/search call returned
    \* SkynetAgent
    agent_running,   \* SkynetAgent.running
    run_pc,          \* where SkynetAgent::run / process_cycle stands
    input_message,   \* process_cycle: input_message
    conversation,    \* process_cycle: conversation (context + input)
    response,        \* process_cycle: response
    cycle_result,    \* what the last process_cycle returned
    cycles,          \* process_cycle calls made so far
    cycle_start,     \* messages as they were when the last process_cycle began
    prev_result,     \* what the process_cycle before the last one returned
    prev_input,      \* the input_message of the process_cycle before the last one
    run_result,      \* what run returned
    stop_seen,       \* stop() wrote the flag while the current run was looping
    stop_before,     \* a stop() returned while no run was looping
    \* Pulse
    interval,        \* Pulse.interval
    last_pulse,      \* Pulse.last_pulse: <<>> is None, <<t>> is Some(t)
    pulse_count,     \* Pulse.pulse_count
    running,         \* Pulse.running
    last_pulse_lock, \* the RwLock around last_pulse
    pulse_count_lock,\* the RwLock around pulse_count
    running_lock,    \* the RwLock around running
    now,             \* the monotonic clock (Instant::now)
    pc,              \* per task: the await it stands at, or "idle"
    caller,          \* per task: the operation that called is_healthy
    hb_now,          \* per task: heartbeat's local now
    stats_local,     \* per task: the locals of stats read so far
    ret,             \* the call that returned in the last step: task, operation, value
    hb_ok,           \* heartbeat() calls that returned Ok so far
    \* Config
    max_context_messages, \* Config.agent.max_context_messages
    \* AnthropicProvider
    gen_input,       \* the messages the last generate call was given
    gen_request,     \* the AnthropicRequest the last generate call built
    gen_result,      \* what the last generate call returned
    gen_pc,          \* where the generate call stands
    \* InMemoryStorage under concurrent callers
    mem_lock,        \* the RwLock around InMemoryStorage.messages
    mem_pc,          \* per task: where its store/retrieve/search call stands
    mem_local,       \* per task: the arguments and locals of its call
    finished         \* the messages of the store calls that returned, in order

mem_vars   == <<messages, next_id, mem_result>>
agent_vars == <<agent_running, run_pc, input_message, conversation, response,
                cycle_result, cycles, cycle_start, prev_result, prev_input,
                run_result, stop_seen, stop_before>>
pulse_vars == <<interval, last_pulse, pulse_count, running, last_pulse_lock,
                pulse_count_lock, running_lock, now, pc, caller, hb_now,
                stats_local, ret, hb_ok>>
config_vars   == <<max_context_messages>>
provider_vars == <<gen_input, gen_request, gen_result, gen_pc>>
storage_vars  == <<mem_lock, mem_pc, mem_local, finished>>
\* what neither the sequential memory calls nor the agent touch
not_mem_agent == <<pulse_vars, config_vars, provider_vars, storage_vars>>
vars == <<mem_vars, agent_vars, pulse_vars, config_vars, provider_vars,
          storage_vars>>

----------------------------------------------------------------------------
(* Bounds of the model *)

\* messages the Memory harness stores
MaxStored == 2
\* characters in a stored content or a search query
MaxLen == 2
\* process_cycle calls of the agent
MaxCycles == 6
\* the largest interval a Pulse is constructed with
MaxInterval == 1
\* ticks of the clock
MaxTime == 3
\* heartbeat() calls begin while pulse_count is below this
MaxBeats == 2
\* the configured context windows range over 0..MaxContext
MaxContext == 1
\* generate is handed up to this many messages
MaxMsgs == 4

----------------------------------------------------------------------------
(* Text *)

\* The characters texts are drawn from: a cased letter in both cases and the
\* capital sigma, whose lowercase depends on its position in the word.
Alphabet == {"A", "a", "SIGMA"}

Texts == UNION {[1..n -> Alphabet] : n \in 0..MaxLen}

\* core::unicode::Cased
Cased(c) == c \in {"A", "a", "SIGMA", "sigma", "final_sigma"}

\* core::unicode::Case_Ignorable
Case_Ignorable(c) == c \in {"'"}

Reverse(s) == [i \in 1..Len(s) |-> s[Len(s) + 1 - i]]

\* iter.skip_while(Case_Ignorable).next() is a cased character
RECURSIVE case_ignorable_then_cased(_)
case_ignorable_then_cased(s) ==
    IF s = <<>> THEN FALSE
    ELSE IF Case_Ignorable(Head(s)) THEN case_ignorable_then_cased(Tail(s))
    ELSE Cased(Head(s))

\* the capital sigma at position i of from: final at the end of a word
map_uppercase_sigma(from, i) ==
    LET is_word_final ==
            /\ case_ignorable_then_cased(Reverse(SubSeq(from, 1, i - 1)))
            /\ ~case_ignorable_then_cased(SubSeq(from, i + 1, Len(from)))
    IN  IF is_word_final THEN "final_sigma" ELSE "sigma"

\* char::to_lowercase of one character, out of context
to_lower(c) ==
    CASE c = "A" -> "a"
      [] c = "SIGMA" -> "sigma"
      [] OTHER -> c

\* str::to_lowercase
to_lowercase(s) ==
    [i \in 1..Len(s) |->
        IF s[i] = "SIGMA" THEN map_uppercase_sigma(s, i) ELSE to_lower(s[i])]

\* str::contains
contains(hay, needle) ==
    \E i \in 0..(Len(hay) - Len(needle)) :
        SubSeq(hay, i + 1, i + Len(needle)) = needle

----------------------------------------------------------------------------
(* Message *)

Roles == {"System", "User", "Assistant", "Tool"}

new_text(id, role, content) ==
    [id |-> id, role |-> role, content |-> content, message_type |-> "Text"]

user(id, content) == new_text(id, "User", content)

assistant(id, content) == new_text(id, "Assistant", content)

----------------------------------------------------------------------------
(* InMemoryStorage *)

\* store: push a clone of the message
store(msgs, message) == Append(msgs, message)

\* retrieve taking the window from the front of the list instead of the back
retrieve_from_front(msgs, limit) ==
    SubSeq(msgs, 1, IF Len(msgs) > limit THEN limit ELSE Len(msgs))

\* retrieve: messages[start..] with start = len - limit, or 0
retrieve(msgs, limit) ==
    LET start == IF Len(msgs) > limit THEN Len(msgs) - limit ELSE 0
    IN  SubSeq(msgs, start + 1, Len(msgs))

\* the filter closure of search
search_matches(msg, query) ==
    contains(to_lowercase(msg.content), to_lowercase(query))

\* search: the messages that pass the filter, in order
search(msgs, query) ==
    LET Keep(msg) == search_matches(msg, query)
    IN  SelectSeq(msgs, Keep)

InitMem ==
    /\ messages = <<>>
    /\ next_id = 1
    /\ mem_result = [op |-> "none"]

\* a caller stores Message::user(content)
MemStore ==
    \E content \in Texts :
        /\ Len(messages) < MaxStored
        /\ messages' = store(messages, user(next_id, content))
        /\ next_id' = next_id + 1
        /\ mem_result' = [op |-> "store"]
        /\ UNCHANGED <<agent_vars, not_mem_agent>>

\* a caller calls retrieve(limit)
MemRetrieve ==
    \E limit \in 0..(MaxStored + 1) :
        /\ mem_result' = [op |-> "retrieve", limit |-> limit,
                          result |-> retrieve(messages, limit)]
        /\ UNCHANGED <<messages, next_id, agent_vars, not_mem_agent>>

\* a caller calls search(query)
MemSearch ==
    \E query \in Texts :
        /\ mem_result' = [op |-> "search", query |-> query,
                          result |-> search(messages, query)]
        /\ UNCHANGED <<messages, next_id, agent_vars, not_mem_agent>>

NextMemRetrieve == MemStore \/ MemRetrieve

NextMemSearch == MemStore \/ MemSearch

----------------------------------------------------------------------------
(* SkynetAgent *)

\* the placeholder input of process_cycle: "Hello, SKYNET!"
HelloSkynet ==
    <<"H", "e", "l", "l", "o", ",", " ", "S", "K", "Y", "N", "E", "T", "!">>

\* the replies a provider may generate
Replies == {<<"o", "k">>, <<"n", "o">>}

\* the limit process_cycle passes to retrieve
ContextLimit == 10

NoMessage == [id |-> 0, role |-> "User", content |-> <<>>, message_type |-> "Text"]

\* Config::load_from_env without SKYNET_MAX_CONTEXT
DefaultMaxContext == 50

\* the agent is built with a Config whose agent.max_context_messages is n
InitConfig(n) == max_context_messages = n

InitAgent ==
    /\ agent_running = FALSE
    /\ run_pc = "idle"
    /\ input_message = NoMessage
    /\ conversation = <<>>
    /\ response = <<>>
    /\ cycle_result = "none"
    /\ cycles = 0
    /\ cycle_start = <<>>
    /\ prev_result = "none"
    /\ prev_input = NoMessage
    /\ run_result = "none"
    /\ stop_seen = FALSE
    /\ stop_before = FALSE

cycle_locals == <<input_message, conversation, response, cycle_result,
                  cycle_start, prev_result, prev_input>>

\* run entering its loop with the flag as it finds it
RunStart_keeps_flag ==
    /\ run_pc \in {"idle", "returned"}
    /\ run_pc' = "check"
    /\ run_result' = "none"
    /\ stop_seen' = FALSE
    /\ UNCHANGED <<not_mem_agent, stop_before, mem_vars, agent_running, cycle_locals,
                   cycles>>

\* run is called: the running flag is set
RunStart ==
    /\ run_pc \in {"idle", "returned"}
    /\ agent_running' = TRUE
    /\ run_pc' = "check"
    /\ run_result' = "none"
    /\ stop_seen' = FALSE
    /\ UNCHANGED <<not_mem_agent, stop_before, mem_vars, cycle_locals, cycles>>

\* the head of a loop that reads the flag only before its first cycle
RunCheck_first_only ==
    /\ run_pc = "check"
    /\ IF ~agent_running /\ cycle_result = "none"
       THEN /\ run_pc' = "returned"
            /\ run_result' = "Ok"
            /\ UNCHANGED cycles
       ELSE /\ cycles < MaxCycles
            /\ run_pc' = "retrieve"
            /\ cycles' = cycles + 1
            /\ UNCHANGED run_result
    /\ UNCHANGED <<not_mem_agent, stop_before, mem_vars, agent_running, cycle_locals, stop_seen>>

\* the head of the loop: leave it when the flag is false, else call
\* process_cycle
RunCheck ==
    /\ run_pc = "check"
    /\ IF ~agent_running
       THEN /\ run_pc' = "returned"
            /\ run_result' = "Ok"
            /\ UNCHANGED cycles
       ELSE /\ cycles < MaxCycles
            /\ run_pc' = "retrieve"
            /\ cycles' = cycles + 1
            /\ UNCHANGED run_result
    /\ UNCHANGED <<not_mem_agent, stop_before, mem_vars, agent_running, cycle_locals, stop_seen>>

\* process_cycle, steps 1 to 3: build the input, load the context, build the
\* conversation
CycleRetrieve ==
    /\ run_pc = "retrieve"
    /\ input_message' = user(next_id, HelloSkynet)
    /\ next_id' = next_id + 1
    /\ conversation' = Append(retrieve(messages, ContextLimit), input_message')
    /\ cycle_start' = messages
    /\ prev_result' = cycle_result
    /\ prev_input' = input_message
    /\ cycle_result' = "none"
    /\ run_pc' = "store_input"
    /\ UNCHANGED <<not_mem_agent, stop_before, messages, mem_result, agent_running, response, cycles,
                   run_result, stop_seen>>

\* process_cycle going on to the provider without storing the input
CycleStoreInput_skipped ==
    /\ run_pc = "store_input"
    /\ run_pc' = "generate"
    /\ UNCHANGED <<not_mem_agent, stop_before, mem_vars, agent_running, cycle_locals, cycles, run_result,
                   stop_seen>>

\* process_cycle storing its input a second time
CycleStoreInput_twice ==
    /\ run_pc = "store_input"
    /\ messages' = store(store(messages, input_message), input_message)
    /\ run_pc' = "generate"
    /\ UNCHANGED <<not_mem_agent, stop_before, next_id, mem_result, agent_running, cycle_locals, cycles,
                   run_result, stop_seen>>

\* process_cycle: store the input in memory
CycleStoreInput ==
    /\ run_pc = "store_input"
    /\ messages' = store(messages, input_message)
    /\ run_pc' = "generate"
    /\ UNCHANGED <<not_mem_agent, stop_before, next_id, mem_result, agent_running, cycle_locals, cycles,
                   run_result, stop_seen>>

\* run passing a failed cycle's error on to its caller instead of logging it
CycleGenerate_fatal ==
    /\ run_pc = "generate"
    /\ \/ \E reply \in Replies :
            /\ response' = reply
            /\ run_pc' = "store_response"
            /\ UNCHANGED <<cycle_result, run_result>>
       \/ /\ cycle_result' = "Err"
          /\ run_pc' = "returned"
          /\ run_result' = "Err"
          /\ UNCHANGED response
    /\ UNCHANGED <<not_mem_agent, stop_before, mem_vars, agent_running, input_message, conversation,
                   cycle_start, prev_result, prev_input, cycles, stop_seen>>

\* process_cycle, step 4: the provider answers, or fails and the cycle
\* returns the error to run, which logs it
CycleGenerate ==
    /\ run_pc = "generate"
    /\ \/ \E reply \in Replies :
            /\ response' = reply
            /\ run_pc' = "store_response"
            /\ UNCHANGED cycle_result
       \/ /\ cycle_result' = "Err"
          /\ run_pc' = "sleep"
          /\ UNCHANGED response
    /\ UNCHANGED <<not_mem_agent, stop_before, mem_vars, agent_running, input_message, conversation,
                   cycle_start, prev_result, prev_input, cycles, run_result,
                   stop_seen>>

\* process_cycle, steps 6 and 7: store the reply, return Ok
CycleStoreResponse ==
    /\ run_pc = "store_response"
    /\ messages' = store(messages, assistant(next_id, response))
    /\ next_id' = next_id + 1
    /\ cycle_result' = "Ok"
    /\ run_pc' = "sleep"
    /\ UNCHANGED <<not_mem_agent, stop_before, mem_result, agent_running, input_message, conversation,
                   response, cycle_start, prev_result, prev_input, cycles,
                   run_result, stop_seen>>

\* the sleep between cycles ends
RunSleep ==
    /\ run_pc = "sleep"
    /\ run_pc' = "check"
    /\ UNCHANGED <<not_mem_agent, stop_before, mem_vars, agent_running, cycle_locals, cycles, run_result,
                   stop_seen>>

\* stop: the running flag is cleared
Stop ==
    /\ agent_running' = FALSE
    /\ stop_seen' = (run_pc \notin {"idle", "returned"})
    /\ stop_before' = (stop_before \/ run_pc \in {"idle", "returned"})
    /\ UNCHANGED <<not_mem_agent, mem_vars, run_pc, cycle_locals, cycles, run_result>>

RunStep ==
    \/ RunCheck
    \/ CycleRetrieve
    \/ CycleStoreInput
    \/ CycleGenerate
    \/ CycleStoreResponse
    \/ RunSleep

NextAgent == RunStart \/ RunStep \/ Stop

----------------------------------------------------------------------------
(* tokio::sync::RwLock: a fair lock, granted in the order of the requests *)

\* the tasks that call the Pulse concurrently: two callers
Tasks == {1, 2}

NoTask == 0

FreeLock == [writer |-> NoTask, readers |-> {}, queue |-> <<>>]

\* the lock can be granted in this mode right now
compatible(l, mode) ==
    IF mode = "write"
    THEN l.writer = NoTask /\ l.readers = {}
    ELSE l.writer = NoTask

grant(l, t, mode) ==
    IF mode = "write"
    THEN [l EXCEPT !.writer = t]
    ELSE [l EXCEPT !.readers = @ \cup {t}]

\* the waiters at the head of the queue that can be served are served
RECURSIVE wake(_)
wake(l) ==
    IF l.queue /= <<>> /\ compatible(l, Head(l.queue).mode)
    THEN wake(grant([l EXCEPT !.queue = Tail(@)],
                    Head(l.queue).task, Head(l.queue).mode))
    ELSE l

\* read().await / write().await: granted at once when nobody waits and the
\* mode is compatible, queued otherwise
request(l, t, mode) ==
    IF l.queue = <<>> /\ compatible(l, mode)
    THEN grant(l, t, mode)
    ELSE [l EXCEPT !.queue = Append(@, [task |-> t, mode |-> mode])]

\* the guard is dropped
release(l, t) ==
    wake([l EXCEPT !.writer = IF @ = t THEN NoTask ELSE @,
                   !.readers = @ \ {t}])

holds(l, t, mode) ==
    IF mode = "write" THEN l.writer = t ELSE t \in l.readers

----------------------------------------------------------------------------
(* Pulse *)

None == <<>>

Some(x) == <<x>>

\* Instant::elapsed
elapsed(last) == IF now >= last THEN now - last ELSE 0

\* the comparison of is_healthy admitting the bound itself
within_interval_inclusive(last) == elapsed(last) <= interval * 2

\* the comparison of is_healthy turned around
within_interval_reversed(last) == elapsed(last) > interval * 2

\* the comparison of is_healthy
within_interval(last) == elapsed(last) < interval * 2

\* a heartbeat whose increment is lost
not_incremented(count) == count

\* the new value of the counter in heartbeat
incremented(count) == count + 1

\* no call returned in the last step
NoReturn == [task |-> NoTask, op |-> "none", value |-> "none"]

\* the locals of stats before any is read
NoStats == [running |-> FALSE, pulse_count |-> 0, time_since_last |-> None]

\* the interval of Pulse::default, in seconds
DefaultInterval == 30

\* Pulse::new(duration)
InitPulse(duration) ==
    /\ interval = duration
    /\ last_pulse = None
    /\ pulse_count = 0
    /\ running = FALSE
    /\ last_pulse_lock = FreeLock
    /\ pulse_count_lock = FreeLock
    /\ running_lock = FreeLock
    /\ now = 0
    /\ pc = [t \in Tasks |-> "idle"]
    /\ caller = [t \in Tasks |-> "none"]
    /\ hb_now = [t \in Tasks |-> 0]
    /\ stats_local = [t \in Tasks |-> NoStats]
    /\ ret = NoReturn
    /\ hb_ok = 0

pulse_data == <<last_pulse, pulse_count, running>>
pulse_locks == <<last_pulse_lock, pulse_count_lock, running_lock>>
not_pulse == <<mem_vars, agent_vars, config_vars, provider_vars, storage_vars,
               interval>>

\* time passes
Tick ==
    /\ now < MaxTime
    /\ now' = now + 1
    /\ ret' = NoReturn
    /\ UNCHANGED <<not_pulse, pulse_data, pulse_locks, pc, caller, hb_now,
                   stats_local, hb_ok>>

\* where a call that returns leaves its task: idle, or at the given place of
\* the run() that made the call
back(t, in_run) == IF caller[t] = "run" THEN in_run ELSE "idle"

\* start() is called and asks for the write lock on running
CallStart(t) ==
    /\ pc[t] = "idle"
    /\ running_lock' = request(running_lock, t, "write")
    /\ pc' = [pc EXCEPT ![t] = "start_running"]
    /\ ret' = NoReturn
    /\ UNCHANGED <<not_pulse, pulse_data, last_pulse_lock, pulse_count_lock,
                   now, caller, hb_now, stats_local, hb_ok>>

\* start() refreshing the last-pulse time of a Pulse that is already running
StartRunning_restamps(t) ==
    /\ pc[t] = "start_running"
    /\ holds(running_lock, t, "write")
    /\ IF running
       THEN /\ running_lock' = release(running_lock, t)
            /\ last_pulse' = Some(now)
            /\ pc' = [pc EXCEPT ![t] = back(t, "run_started")]
            /\ ret' = [task |-> t, op |-> "start", value |-> "Ok"]
            /\ UNCHANGED <<running, last_pulse_lock>>
       ELSE /\ running' = TRUE
            /\ last_pulse_lock' = request(last_pulse_lock, t, "write")
            /\ pc' = [pc EXCEPT ![t] = "start_last_pulse"]
            /\ ret' = NoReturn
            /\ UNCHANGED <<running_lock, last_pulse>>
    /\ UNCHANGED <<not_pulse, pulse_count, pulse_count_lock, now, caller,
                   hb_now, stats_local, hb_ok>>

\* start() dropping its guard of running before it writes last_pulse
StartRunning_releases_early(t) ==
    /\ pc[t] = "start_running"
    /\ holds(running_lock, t, "write")
    /\ IF running
       THEN /\ pc' = [pc EXCEPT ![t] = back(t, "run_started")]
            /\ ret' = [task |-> t, op |-> "start", value |-> "Ok"]
            /\ UNCHANGED <<running, last_pulse_lock>>
       ELSE /\ running' = TRUE
            /\ last_pulse_lock' = request(last_pulse_lock, t, "write")
            /\ pc' = [pc EXCEPT ![t] = "start_last_pulse"]
            /\ ret' = NoReturn
    /\ running_lock' = release(running_lock, t)
    /\ UNCHANGED <<not_pulse, last_pulse, pulse_count, pulse_count_lock, now,
                   caller, hb_now, stats_local, hb_ok>>

\* start() holds running: return if already running, else set the flag and
\* ask for the write lock on last_pulse
StartRunning(t) ==
    /\ pc[t] = "start_running"
    /\ holds(running_lock, t, "write")
    /\ IF running
       THEN /\ running_lock' = release(running_lock, t)
            /\ pc' = [pc EXCEPT ![t] = back(t, "run_started")]
            /\ ret' = [task |-> t, op |-> "start", value |-> "Ok"]
            /\ UNCHANGED <<running, last_pulse_lock>>
       ELSE /\ running' = TRUE
            /\ last_pulse_lock' = request(last_pulse_lock, t, "write")
            /\ pc' = [pc EXCEPT ![t] = "start_last_pulse"]
            /\ ret' = NoReturn
            /\ UNCHANGED running_lock
    /\ UNCHANGED <<not_pulse, last_pulse, pulse_count, pulse_count_lock, now,
                   caller, hb_now, stats_local, hb_ok>>

\* start() holds last_pulse: record the instant, drop both guards, return
StartLastPulse(t) ==
    /\ pc[t] = "start_last_pulse"
    /\ holds(last_pulse_lock, t, "write")
    /\ last_pulse' = Some(now)
    /\ last_pulse_lock' = release(last_pulse_lock, t)
    /\ running_lock' = release(running_lock, t)
    /\ pc' = [pc EXCEPT ![t] = back(t, "run_started")]
    /\ ret' = [task |-> t, op |-> "start", value |-> "Ok"]
    /\ UNCHANGED <<not_pulse, pulse_count, running, pulse_count_lock, now,
                   caller, hb_now, stats_local, hb_ok>>

\* stop() is called and asks for the write lock on running
CallStop(t) ==
    /\ pc[t] = "idle"
    /\ running_lock' = request(running_lock, t, "write")
    /\ pc' = [pc EXCEPT ![t] = "stop_running"]
    /\ ret' = NoReturn
    /\ UNCHANGED <<not_pulse, pulse_data, last_pulse_lock, pulse_count_lock,
                   now, caller, hb_now, stats_local, hb_ok>>

\* stop() also forgetting the last-pulse time
StopRunning_clears(t) ==
    /\ pc[t] = "stop_running"
    /\ holds(running_lock, t, "write")
    /\ running' = FALSE
    /\ last_pulse' = None
    /\ running_lock' = release(running_lock, t)
    /\ pc' = [pc EXCEPT ![t] = "idle"]
    /\ ret' = [task |-> t, op |-> "stop", value |-> "unit"]
    /\ UNCHANGED <<not_pulse, pulse_count, last_pulse_lock, pulse_count_lock,
                   now, caller, hb_now, stats_local, hb_ok>>

\* stop() holds running: clear the flag, return
StopRunning(t) ==
    /\ pc[t] = "stop_running"
    /\ holds(running_lock, t, "write")
    /\ running' = FALSE
    /\ running_lock' = release(running_lock, t)
    /\ pc' = [pc EXCEPT ![t] = "idle"]
    /\ ret' = [task |-> t, op |-> "stop", value |-> "unit"]
    /\ UNCHANGED <<not_pulse, last_pulse, pulse_count, last_pulse_lock,
                   pulse_count_lock, now, caller, hb_now, stats_local, hb_ok>>

\* heartbeat() is called and asks for the read lock on running
CallHeartbeat(t) ==
    /\ pc[t] = "idle"
    /\ pulse_count < MaxBeats
    /\ running_lock' = request(running_lock, t, "read")
    /\ pc' = [pc EXCEPT ![t] = "hb_running"]
    /\ ret' = NoReturn
    /\ UNCHANGED <<not_pulse, pulse_data, last_pulse_lock, pulse_count_lock,
                   now, caller, hb_now, stats_local, hb_ok>>

\* heartbeat() going on without looking at the flag
HbRunning_unchecked(t) ==
    /\ pc[t] = "hb_running"
    /\ holds(running_lock, t, "read")
    /\ hb_now' = [hb_now EXCEPT ![t] = now]
    /\ last_pulse_lock' = request(last_pulse_lock, t, "write")
    /\ pc' = [pc EXCEPT ![t] = "hb_last_pulse"]
    /\ ret' = NoReturn
    /\ UNCHANGED <<not_pulse, pulse_data, pulse_count_lock, running_lock, now,
                   caller, stats_local, hb_ok>>

\* heartbeat() holds running: fail if stopped, else read the clock and ask
\* for the write lock on last_pulse
HbRunning(t) ==
    /\ pc[t] = "hb_running"
    /\ holds(running_lock, t, "read")
    /\ IF ~running
       THEN /\ running_lock' = release(running_lock, t)
            /\ pc' = [pc EXCEPT ![t] = back(t, "run_failed")]
            /\ ret' = [task |-> t, op |-> "heartbeat", value |-> "Err"]
            /\ UNCHANGED <<hb_now, last_pulse_lock>>
       ELSE /\ hb_now' = [hb_now EXCEPT ![t] = now]
            /\ last_pulse_lock' = request(last_pulse_lock, t, "write")
            /\ pc' = [pc EXCEPT ![t] = "hb_last_pulse"]
            /\ ret' = NoReturn
            /\ UNCHANGED running_lock
    /\ UNCHANGED <<not_pulse, pulse_data, pulse_count_lock, now, caller,
                   stats_local, hb_ok>>

\* heartbeat() holds last_pulse: write it, drop that guard, ask for the write
\* lock on pulse_count
HbLastPulse(t) ==
    /\ pc[t] = "hb_last_pulse"
    /\ holds(last_pulse_lock, t, "write")
    /\ last_pulse' = Some(hb_now[t])
    /\ last_pulse_lock' = release(last_pulse_lock, t)
    /\ pulse_count_lock' = request(pulse_count_lock, t, "write")
    /\ pc' = [pc EXCEPT ![t] = "hb_count"]
    /\ ret' = NoReturn
    /\ UNCHANGED <<not_pulse, pulse_count, running, running_lock, now,
                   caller, hb_now, stats_local, hb_ok>>

\* heartbeat() holds pulse_count: increment it, drop the guards, return Ok
HbCount(t) ==
    /\ pc[t] = "hb_count"
    /\ holds(pulse_count_lock, t, "write")
    /\ pulse_count' = incremented(pulse_count)
    /\ pulse_count_lock' = release(pulse_count_lock, t)
    /\ running_lock' = release(running_lock, t)
    /\ hb_now' = [hb_now EXCEPT ![t] = 0]
    /\ pc' = [pc EXCEPT ![t] = back(t, "run_beaten")]
    /\ ret' = [task |-> t, op |-> "heartbeat", value |-> "Ok"]
    /\ hb_ok' = hb_ok + 1
    /\ UNCHANGED <<not_pulse, last_pulse, running, last_pulse_lock, now,
                   caller, stats_local>>

\* is_healthy() is called and asks for the read lock on running
CallIsHealthy(t) ==
    /\ pc[t] = "idle"
    /\ running_lock' = request(running_lock, t, "read")
    /\ pc' = [pc EXCEPT ![t] = "ih_running"]
    /\ ret' = NoReturn
    /\ UNCHANGED <<not_pulse, pulse_data, last_pulse_lock, pulse_count_lock,
                   now, caller, hb_now, stats_local, hb_ok>>

\* what is returned when is_healthy returns healthy: its own value, or the
\* PulseStats of the stats() that called it
returned(t, healthy) ==
    IF caller[t] = "stats"
    THEN [task |-> t, op |-> "stats",
          value |-> [running |-> stats_local[t].running,
                     pulse_count |-> stats_local[t].pulse_count,
                     time_since_last |-> stats_local[t].time_since_last,
                     interval |-> interval,
                     is_healthy |-> healthy]]
    ELSE [task |-> t, op |-> "is_healthy", value |-> healthy]

\* is_healthy() holds running: false if stopped, else ask for the read lock
\* on last_pulse
IhRunning(t) ==
    /\ pc[t] = "ih_running"
    /\ holds(running_lock, t, "read")
    /\ IF ~running
       THEN /\ running_lock' = release(running_lock, t)
            /\ pc' = [pc EXCEPT ![t] = back(t, "run_sleep")]
            /\ ret' = returned(t, FALSE)
            /\ caller' = [caller EXCEPT ![t] = IF @ = "run" THEN @ ELSE "none"]
            /\ stats_local' = [stats_local EXCEPT ![t] = NoStats]
            /\ UNCHANGED last_pulse_lock
       ELSE /\ last_pulse_lock' = request(last_pulse_lock, t, "read")
            /\ pc' = [pc EXCEPT ![t] = "ih_last_pulse"]
            /\ ret' = NoReturn
            /\ UNCHANGED <<running_lock, caller, stats_local>>
    /\ UNCHANGED <<not_pulse, pulse_data, pulse_count_lock, now, hb_now,
                   hb_ok>>

\* is_healthy() holds last_pulse: compare the elapsed time, or false if no
\* pulse was recorded; drop both guards, return
IhLastPulse(t) ==
    /\ pc[t] = "ih_last_pulse"
    /\ holds(last_pulse_lock, t, "read")
    /\ ret' = returned(t, IF last_pulse /= None
                          THEN within_interval(last_pulse[1])
                          ELSE FALSE)
    /\ last_pulse_lock' = release(last_pulse_lock, t)
    /\ running_lock' = release(running_lock, t)
    /\ pc' = [pc EXCEPT ![t] = back(t, "run_sleep")]
    /\ caller' = [caller EXCEPT ![t] = IF @ = "run" THEN @ ELSE "none"]
    /\ stats_local' = [stats_local EXCEPT ![t] = NoStats]
    /\ UNCHANGED <<not_pulse, pulse_data, pulse_count_lock, now, hb_now,
                   hb_ok>>

\* stats() is called and asks for the read lock on running
CallStats(t) ==
    /\ pc[t] = "idle"
    /\ running_lock' = request(running_lock, t, "read")
    /\ pc' = [pc EXCEPT ![t] = "stats_running"]
    /\ ret' = NoReturn
    /\ UNCHANGED <<not_pulse, pulse_data, last_pulse_lock, pulse_count_lock,
                   now, caller, hb_now, stats_local, hb_ok>>

\* stats() holds running: copy it, drop the guard, ask for the read lock on
\* pulse_count
StatsRunning(t) ==
    /\ pc[t] = "stats_running"
    /\ holds(running_lock, t, "read")
    /\ stats_local' = [stats_local EXCEPT ![t].running = running]
    /\ running_lock' = release(running_lock, t)
    /\ pulse_count_lock' = request(pulse_count_lock, t, "read")
    /\ pc' = [pc EXCEPT ![t] = "stats_count"]
    /\ ret' = NoReturn
    /\ UNCHANGED <<not_pulse, pulse_data, last_pulse_lock, now, caller,
                   hb_now, hb_ok>>

\* stats() holds pulse_count: copy it, drop the guard, ask for the read lock
\* on last_pulse
StatsCount(t) ==
    /\ pc[t] = "stats_count"
    /\ holds(pulse_count_lock, t, "read")
    /\ stats_local' = [stats_local EXCEPT ![t].pulse_count = pulse_count]
    /\ pulse_count_lock' = release(pulse_count_lock, t)
    /\ last_pulse_lock' = request(last_pulse_lock, t, "read")
    /\ pc' = [pc EXCEPT ![t] = "stats_last_pulse"]
    /\ ret' = NoReturn
    /\ UNCHANGED <<not_pulse, pulse_data, running_lock, now, caller, hb_now,
                   hb_ok>>

\* stats() keeping its guard of last_pulse while it calls is_healthy()
StatsLastPulse_keeps_guard(t) ==
    /\ pc[t] = "stats_last_pulse"
    /\ holds(last_pulse_lock, t, "read")
    /\ stats_local' =
           [stats_local EXCEPT ![t].time_since_last =
               IF last_pulse = None THEN None
               ELSE Some(elapsed(last_pulse[1]))]
    /\ running_lock' = request(running_lock, t, "read")
    /\ caller' = [caller EXCEPT ![t] = "stats"]
    /\ pc' = [pc EXCEPT ![t] = "ih_running"]
    /\ ret' = NoReturn
    /\ UNCHANGED <<not_pulse, pulse_data, last_pulse_lock, pulse_count_lock, now,
                   hb_now, hb_ok>>

\* stats() holds last_pulse: copy it, drop the guard, take the time since,
\* call is_healthy()
StatsLastPulse(t) ==
    /\ pc[t] = "stats_last_pulse"
    /\ holds(last_pulse_lock, t, "read")
    /\ stats_local' =
           [stats_local EXCEPT ![t].time_since_last =
               IF last_pulse = None THEN None
               ELSE Some(elapsed(last_pulse[1]))]
    /\ last_pulse_lock' = release(last_pulse_lock, t)
    /\ running_lock' = request(running_lock, t, "read")
    /\ caller' = [caller EXCEPT ![t] = "stats"]
    /\ pc' = [pc EXCEPT ![t] = "ih_running"]
    /\ ret' = NoReturn
    /\ UNCHANGED <<not_pulse, pulse_data, pulse_count_lock, now, hb_now,
                   hb_ok>>

\* run() is called: it calls start(), which asks for the write lock on
\* running
CallPulseRun(t) ==
    /\ pc[t] = "idle"
    /\ pulse_count < MaxBeats
    /\ caller' = [caller EXCEPT ![t] = "run"]
    /\ running_lock' = request(running_lock, t, "write")
    /\ pc' = [pc EXCEPT ![t] = "start_running"]
    /\ ret' = NoReturn
    /\ UNCHANGED <<not_pulse, pulse_data, last_pulse_lock, pulse_count_lock,
                   now, hb_now, stats_local, hb_ok>>

\* run(): start() has returned or the sleep has ended; the head of the loop
\* asks for the read lock on running.  Once MaxBeats beats are counted the
\* sleep of a running Pulse is not followed further: it ends only to let
\* the loop find the flag false.
PulseRunHead(t) ==
    /\ pc[t] \in {"run_started", "run_sleep"}
    /\ pulse_count < MaxBeats \/ ~running
    /\ running_lock' = request(running_lock, t, "read")
    /\ pc' = [pc EXCEPT ![t] = "run_check"]
    /\ ret' = NoReturn
    /\ UNCHANGED <<not_pulse, pulse_data, last_pulse_lock, pulse_count_lock,
                   now, caller, hb_now, stats_local, hb_ok>>

\* a loop that goes on polling when it finds the flag false
PulseRunCheck_polls(t) ==
    /\ pc[t] = "run_check"
    /\ holds(running_lock, t, "read")
    /\ IF ~running
       THEN /\ running_lock' = release(running_lock, t)
            /\ pc' = [pc EXCEPT ![t] = "run_sleep"]
       ELSE /\ running_lock' = request(release(running_lock, t), t, "read")
            /\ pc' = [pc EXCEPT ![t] = "hb_running"]
    /\ ret' = NoReturn
    /\ UNCHANGED <<not_pulse, pulse_data, last_pulse_lock, pulse_count_lock,
                   now, caller, hb_now, stats_local, hb_ok>>

\* run() holds running: copy the flag and drop the guard; leave the loop and
\* return Ok if it is false, else call heartbeat(), which asks for the read
\* lock on running again
PulseRunCheck(t) ==
    /\ pc[t] = "run_check"
    /\ holds(running_lock, t, "read")
    /\ IF ~running
       THEN /\ running_lock' = release(running_lock, t)
            /\ pc' = [pc EXCEPT ![t] = "idle"]
            /\ caller' = [caller EXCEPT ![t] = "none"]
            /\ ret' = [task |-> t, op |-> "run", value |-> "Ok"]
       ELSE /\ running_lock' = request(release(running_lock, t), t, "read")
            /\ pc' = [pc EXCEPT ![t] = "hb_running"]
            /\ ret' = NoReturn
            /\ UNCHANGED caller
    /\ UNCHANGED <<not_pulse, pulse_data, last_pulse_lock, pulse_count_lock,
                   now, hb_now, stats_local, hb_ok>>

\* run(): heartbeat() returned Ok; call is_healthy(), which asks for the read
\* lock on running
PulseRunBeaten(t) ==
    /\ pc[t] = "run_beaten"
    /\ running_lock' = request(running_lock, t, "read")
    /\ pc' = [pc EXCEPT ![t] = "ih_running"]
    /\ ret' = NoReturn
    /\ UNCHANGED <<not_pulse, pulse_data, last_pulse_lock, pulse_count_lock,
                   now, caller, hb_now, stats_local, hb_ok>>

\* run(): heartbeat() returned Err; the ? operator returns it
PulseRunFailed(t) ==
    /\ pc[t] = "run_failed"
    /\ pc' = [pc EXCEPT ![t] = "idle"]
    /\ caller' = [caller EXCEPT ![t] = "none"]
    /\ ret' = [task |-> t, op |-> "run", value |-> "Err"]
    /\ UNCHANGED <<not_pulse, pulse_data, pulse_locks, now, hb_now,
                   stats_local, hb_ok>>

\* the steps a task takes once its call is made
PulseStep(t) ==
    \/ StartRunning(t)
    \/ StartLastPulse(t)
    \/ StopRunning(t)
    \/ HbRunning(t)
    \/ HbLastPulse(t)
    \/ HbCount(t)
    \/ IhRunning(t)
    \/ IhLastPulse(t)
    \/ PulseRunHead(t)
    \/ PulseRunCheck(t)
    \/ PulseRunBeaten(t)
    \/ PulseRunFailed(t)

\* tasks that call run, start, stop and heartbeat; run and start are called
\* while pulse_count is below MaxBeats
NextPulseRun ==
    \/ Tick
    \/ \E t \in Tasks :
        \/ CallPulseRun(t)
        \/ pulse_count < MaxBeats /\ CallStart(t)
        \/ CallStop(t)
        \/ CallHeartbeat(t)
        \/ PulseStep(t)

\* the steps a task takes once its call is made, those of stats() included
PulseStepAll(t) ==
    \/ PulseStep(t)
    \/ StatsRunning(t)
    \/ StatsCount(t)
    \/ StatsLastPulse(t)

\* tasks that call run, start, stop, heartbeat, is_healthy and stats; run
\* and start are called while pulse_count is below MaxBeats.  The clock
\* stands still: no lock is asked for or dropped according to the time.
NextPulseAll ==
    \E t \in Tasks :
        \/ CallPulseRun(t)
        \/ pulse_count < MaxBeats /\ CallStart(t)
        \/ CallStop(t)
        \/ CallHeartbeat(t)
        \/ CallIsHealthy(t)
        \/ CallStats(t)
        \/ PulseStepAll(t)

NextPulse ==
    \/ Tick
    \/ \E t \in Tasks :
        \/ CallStart(t)
        \/ StartRunning(t)
        \/ StartLastPulse(t)
        \/ CallStop(t)
        \/ StopRunning(t)
        \/ CallHeartbeat(t)
        \/ HbRunning(t)
        \/ HbLastPulse(t)
        \/ HbCount(t)
        \/ CallIsHealthy(t)
        \/ IhRunning(t)
        \/ IhLastPulse(t)
        \/ CallStats(t)
        \/ StatsRunning(t)
        \/ StatsCount(t)
        \/ StatsLastPulse(t)

----------------------------------------------------------------------------
(* AnthropicProvider *)

\* the contents of the messages handed to generate
ShortTexts == {<<"a">>, <<"A">>}

\* the message sequences handed to generate: n messages of the given roles
\* and contents, with distinct ids
Inputs(n, roles, contents) ==
    [i \in 1..n |-> new_text(i, roles[i], contents[i])]

\* the role string convert_messages sends for a role
api_role(role) ==
    IF role = "User" THEN "user"
    ELSE IF role = "Assistant" THEN "assistant"
    ELSE "user"

\* convert_messages sending every message, whatever its role
convert_messages_unfiltered(msgs) ==
    [i \in 1..Len(msgs) |->
        [role |-> api_role(msgs[i].role), content |-> msgs[i].content]]

\* convert_messages: keep the User and Assistant messages, map each to its
\* role string and its content
convert_messages(msgs) ==
    LET Exchange(msg) == msg.role \in {"User", "Assistant"}
        kept == SelectSeq(msgs, Exchange)
    IN  [i \in 1..Len(kept) |->
            [role |-> api_role(kept[i].role), content |-> kept[i].content]]

\* extract_system_message: the content of the first System message, if any
extract_system_message(msgs) ==
    LET found == {i \in 1..Len(msgs) : msgs[i].role = "System"}
    IN  IF found = {} THEN None
        ELSE Some(msgs[CHOOSE i \in found : \A j \in found : i <= j].content)

\* the request before any generate call: nothing to send
NoRequest == [model |-> "default_model", max_tokens |-> 1000, messages |-> <<>>,
              system |-> None]

NoResult == [ok |-> FALSE, text |-> <<>>, error |-> "none"]

\* the answers of the HTTP API: a failure status, or a success with the
\* texts of its content
Responses ==
    {[success |-> FALSE, content |-> <<>>], [success |-> TRUE, content |-> <<>>]}
        \cup {[success |-> TRUE, content |-> <<reply>>] : reply \in Replies}

\* generate(messages) up to its await: build the request and post it
GenerateSend ==
    /\ gen_pc = "idle"
    /\ \E n \in 0..MaxMsgs :
        \E roles \in [1..n -> Roles], contents \in [1..n -> ShortTexts] :
            LET msgs == Inputs(n, roles, contents)
            IN  /\ gen_input' = msgs
                /\ gen_request' = [model |-> "default_model", max_tokens |-> 1000,
                                   messages |-> convert_messages(msgs),
                                   system |-> extract_system_message(msgs)]
                /\ gen_pc' = "sent"
                /\ UNCHANGED <<mem_vars, agent_vars, pulse_vars, config_vars,
                               storage_vars, gen_result>>

\* generate after its await: the answer arrives, return its first text
GenerateReceive ==
    \E answer \in Responses :
        /\ gen_pc = "sent"
        /\ gen_result' =
              IF ~answer.success
              THEN [ok |-> FALSE, text |-> <<>>, error |-> "Anthropic API error"]
              ELSE IF answer.content = <<>>
              THEN [ok |-> FALSE, text |-> <<>>,
                    error |-> "No content in Anthropic response"]
              ELSE [ok |-> TRUE, text |-> answer.content[1], error |-> "none"]
        /\ gen_pc' = "returned"
        /\ UNCHANGED <<mem_vars, agent_vars, pulse_vars, config_vars, storage_vars,
                       gen_input, gen_request>>

\* one generate call: the provider keeps no state between calls
NextProvider == GenerateSend \/ GenerateReceive

----------------------------------------------------------------------------
(* InMemoryStorage under concurrent callers *)

NoCall == [op |-> "none", arg |-> <<>>, mode |-> "none", index |-> 0, seen |-> <<>>]

\* the task holds a guard of the lock, of either kind
held(l, t) == l.writer = t \/ t \in l.readers

\* the locals after a step: a task the step hands the lock to notes the
\* stores that have returned by then
stamp(locals, l_old, l_new, done) ==
    [u \in Tasks |->
        IF held(l_new, u) /\ ~held(l_old, u)
        THEN [locals[u] EXCEPT !.seen = done]
        ELSE locals[u]]

\* a call begins: it asks for the lock in its mode
acquire(t, call, next_pc) ==
    /\ mem_pc[t] = "idle"
    /\ mem_lock' = request(mem_lock, t, call.mode)
    /\ mem_local' = stamp([mem_local EXCEPT ![t] = call], mem_lock, mem_lock',
                          finished)
    /\ mem_pc' = [mem_pc EXCEPT ![t] = next_pc]
    /\ mem_result' = [op |-> "none"]

\* a call returns: its guard is dropped
leave(t, result, done) ==
    /\ mem_lock' = release(mem_lock, t)
    /\ mem_result' = [op |-> mem_local[t].op, task |-> t, arg |-> mem_local[t].arg,
                      result |-> result, seen |-> mem_local[t].seen]
    /\ mem_local' = stamp([mem_local EXCEPT ![t] = NoCall], mem_lock, mem_lock',
                          done)
    /\ mem_pc' = [mem_pc EXCEPT ![t] = "idle"]

not_storage == <<agent_vars, pulse_vars, config_vars, provider_vars>>

\* the store calls that have not returned yet
stores_begun == Cardinality({t \in Tasks : mem_local[t].op = "store"})

\* store taking the lock for reading
CallStore_shared(t) ==
    \E content \in ShortTexts :
        /\ Len(finished) + stores_begun < MaxStored
        /\ acquire(t, [op |-> "store", arg |-> user(next_id, content),
                       mode |-> "read", index |-> 0, seen |-> <<>>], "store_lock")
        /\ next_id' = next_id + 1
        /\ UNCHANGED <<not_storage, messages, finished>>

\* a task calls store(&Message::user(content)): messages.write().await
CallStore(t) ==
    \E content \in ShortTexts :
        /\ Len(finished) + stores_begun < MaxStored
        /\ acquire(t, [op |-> "store", arg |-> user(next_id, content),
                       mode |-> "write", index |-> 0, seen |-> <<>>], "store_lock")
        /\ next_id' = next_id + 1
        /\ UNCHANGED <<not_storage, messages, finished>>

\* store holds the lock: push reads the length of the Vec
StoreLen(t) ==
    /\ mem_pc[t] = "store_lock"
    /\ holds(mem_lock, t, mem_local[t].mode)
    /\ mem_local' = [mem_local EXCEPT ![t].index = Len(messages)]
    /\ mem_pc' = [mem_pc EXCEPT ![t] = "store_push"]
    /\ mem_result' = [op |-> "none"]
    /\ UNCHANGED <<not_storage, messages, next_id, finished, mem_lock>>

\* push writes the clone behind the length it read and sets the new length;
\* store returns Ok
StorePush(t) ==
    /\ mem_pc[t] = "store_push"
    /\ messages' = [i \in 1..(mem_local[t].index + 1) |->
                       IF i = mem_local[t].index + 1 THEN mem_local[t].arg
                       ELSE messages[i]]
    /\ finished' = Append(finished, mem_local[t].arg)
    /\ leave(t, <<>>, finished')
    /\ UNCHANGED <<not_storage, next_id>>

\* a task calls retrieve(limit): messages.read().await
CallRetrieve(t) ==
    \E limit \in 0..(MaxStored + 1) :
        /\ acquire(t, [op |-> "retrieve", arg |-> limit, mode |-> "read",
                       index |-> 0, seen |-> <<>>], "retrieve_lock")
        /\ UNCHANGED <<not_storage, messages, next_id, finished>>

\* retrieve holds the lock: compute start
RetrieveStart(t) ==
    /\ mem_pc[t] = "retrieve_lock"
    /\ holds(mem_lock, t, mem_local[t].mode)
    /\ mem_local' = [mem_local EXCEPT ![t].index =
                        IF Len(messages) > mem_local[t].arg
                        THEN Len(messages) - mem_local[t].arg
                        ELSE 0]
    /\ mem_pc' = [mem_pc EXCEPT ![t] = "retrieve_copy"]
    /\ mem_result' = [op |-> "none"]
    /\ UNCHANGED <<not_storage, messages, next_id, finished, mem_lock>>

\* retrieve returns messages[start..].to_vec()
RetrieveCopy(t) ==
    /\ mem_pc[t] = "retrieve_copy"
    /\ leave(t, SubSeq(messages, mem_local[t].index + 1, Len(messages)), finished)
    /\ UNCHANGED <<not_storage, messages, next_id, finished>>

\* a task calls search(query): messages.read().await
CallSearch(t) ==
    \E query \in ShortTexts :
        /\ acquire(t, [op |-> "search", arg |-> query, mode |-> "read",
                       index |-> 0, seen |-> <<>>], "search_lock")
        /\ UNCHANGED <<not_storage, messages, next_id, finished>>

\* search holds the lock: iter() takes the bounds of the slice
SearchIter(t) ==
    /\ mem_pc[t] = "search_lock"
    /\ holds(mem_lock, t, mem_local[t].mode)
    /\ mem_local' = [mem_local EXCEPT ![t].index = Len(messages)]
    /\ mem_pc' = [mem_pc EXCEPT ![t] = "search_filter"]
    /\ mem_result' = [op |-> "none"]
    /\ UNCHANGED <<not_storage, messages, next_id, finished, mem_lock>>

\* search returns the messages of the slice that match
SearchCollect(t) ==
    /\ mem_pc[t] = "search_filter"
    /\ leave(t, search(SubSeq(messages, 1, mem_local[t].index), mem_local[t].arg),
             finished)
    /\ UNCHANGED <<not_storage, messages, next_id, finished>>

NextStorage ==
    \E t \in Tasks :
        \/ CallStore(t)
        \/ StoreLen(t)
        \/ StorePush(t)
        \/ CallRetrieve(t)
        \/ RetrieveStart(t)
        \/ RetrieveCopy(t)
        \/ CallSearch(t)
        \/ SearchIter(t)
        \/ SearchCollect(t)

----------------------------------------------------------------------------
(* Specifications *)

\* no generate call was made yet
InitProvider ==
    /\ gen_input = <<>>
    /\ gen_request = NoRequest
    /\ gen_result = NoResult
    /\ gen_pc = "idle"

\* no store, retrieve or search call is in progress
InitStorage ==
    /\ mem_lock = FreeLock
    /\ mem_pc = [t \in Tasks |-> "idle"]
    /\ mem_local = [t \in Tasks |-> NoCall]
    /\ finished = <<>>

\* what every specification starts from, but for the Pulse and the Config
InitCore == InitMem /\ InitAgent /\ InitProvider /\ InitStorage

\* a new agent with its empty memory, the default Config and Pulse::default()
Init == InitCore /\ InitConfig(DefaultMaxContext) /\ InitPulse(DefaultInterval)

\* the same with a Config of any context window
InitAnyConfig ==
    /\ InitCore
    /\ \E n \in 0..MaxContext : InitConfig(n)
    /\ InitPulse(DefaultInterval)

\* the same with a Pulse::new of any interval
InitAnyInterval ==
    /\ InitCore
    /\ InitConfig(DefaultMaxContext)
    /\ \E duration \in 0..MaxInterval : InitPulse(duration)

\* callers that store and retrieve
SpecMemRetrieve == Init /\ [][NextMemRetrieve]_vars

\* callers that store and search
SpecMemSearch == Init /\ [][NextMemSearch]_vars

SpecAgent == Init /\ [][NextAgent]_vars

\* the agent built with any context window
SpecAgentConfig == InitAnyConfig /\ [][NextAgent]_vars

\* tasks that call store, retrieve and search of one InMemoryStorage
SpecStorage == Init /\ [][NextStorage]_vars

\* callers of AnthropicProvider::generate
SpecProvider == Init /\ [][NextProvider]_vars

SpecPulse == InitAnyInterval /\ [][NextPulse]_vars

SpecPulseRun == InitAnyInterval /\ [][NextPulseRun]_vars

\* the scheduler lets every task that can take a step take it
SpecPulseRunFair == SpecPulseRun /\ \A t \in Tasks : WF_vars(PulseStep(t))

\* every operation of the Pulse, under the same scheduler
SpecPulseAll ==
    /\ Init
    /\ [][NextPulseAll]_vars
    /\ \A t \in Tasks : WF_vars(PulseStepAll(t))

\* every step of run and of process_cycle terminates
SpecAgentFair == SpecAgent /\ WF_vars(RunStep)

----------------------------------------------------------------------------
(* Claims *)

Min(a, b) == IF a < b THEN a ELSE b

\* C1: retrieve(limit) returns exactly the last min(limit, stored) messages,
\* in insertion order, for every limit from 0 to more than is stored.
C1_RetrieveLastMin ==
    mem_result.op = "retrieve" =>
        LET n == Len(messages)
            k == Min(mem_result.limit, n)
        IN  /\ Len(mem_result.result) = k
            /\ \A i \in 1..k : mem_result.result[i] = messages[n - k + i]

\* C1 witness: a retrieve whose limit is positive and smaller than the number
\* of stored messages returned a proper window.
C1_Witness ==
    /\ mem_result.op = "retrieve"
    /\ Len(messages) = 2
    /\ mem_result.limit = 1
    /\ mem_result.result = <<messages[2]>>

\* two characters are the same letter, whatever their case
EqualIgnoringCase(c, d) ==
    LET Fold(x) == IF x = "final_sigma" THEN "sigma" ELSE to_lower(x)
    IN  Fold(c) = Fold(d)

\* some window of content equals query letter by letter, ignoring case
ContainsIgnoringCase(content, query) ==
    \E i \in 0..(Len(content) - Len(query)) :
        \A j \in 1..Len(query) : EqualIgnoringCase(content[i + j], query[j])

\* C2: search(q) returns exactly the stored messages whose content contains q
\* as a case-insensitive substring, in insertion order.
C2_SearchCaseInsensitive ==
    mem_result.op = "search" =>
        LET Match(msg) == ContainsIgnoringCase(msg.content, mem_result.query)
        IN  mem_result.result = SelectSeq(messages, Match)

\* C3: a process_cycle whose provider fails returns an error having stored
\* its input and no reply; one whose provider succeeds returns Ok having
\* stored its input and then its reply; after a failed cycle and a successful
\* one memory ends with the failed input, the second input and the reply.
C3_FailedCycleKeepsInput ==
    /\ (run_pc = "sleep" /\ cycle_result = "Err") =>
            /\ messages = Append(cycle_start, input_message)
            /\ input_message.role = "User"
    /\ (run_pc = "sleep" /\ cycle_result = "Ok") =>
            /\ Len(messages) = Len(cycle_start) + 2
            /\ SubSeq(messages, 1, Len(cycle_start)) = cycle_start
            /\ messages[Len(messages) - 1] = input_message
            /\ messages[Len(messages)].role = "Assistant"
            /\ messages[Len(messages)].content = response
    /\ (run_pc = "sleep" /\ cycle_result = "Ok" /\ prev_result = "Err") =>
            /\ Len(messages) >= 3
            /\ messages[Len(messages) - 2] = prev_input
            /\ prev_input.id /= input_message.id

\* C3 witness: a cycle succeeded right after a failed one.
C3_Witness ==
    /\ run_pc = "sleep"
    /\ cycle_result = "Ok"
    /\ prev_result = "Err"
    /\ Len(messages) = 3

C5_StopIsEffective ==
    /\ [][stop_seen => ~(run_pc = "check" /\ run_pc' = "retrieve")]_vars
    /\ (stop_seen ~> run_pc = "returned")

\* C5 witness: run returned after a stop() that came while a cycle was in
\* flight.
C5_Witness ==
    /\ stop_seen
    /\ run_pc = "returned"
    /\ cycle_result = "Ok"

\* a heartbeat() returned Ok in the last step
BeatReturned == ret.op = "heartbeat" /\ ret.value = "Ok"

\* C6: pulse_count equals the number of heartbeat() calls that returned Ok; it
\* never decreases, and it changes only by the 1 that a heartbeat returning
\* Ok adds.
C6_CountIsBeatsReturned ==
    /\ [](pulse_count = hb_ok)
    /\ [][/\ pulse_count' >= pulse_count
          /\ BeatReturned' => pulse_count' = pulse_count + 1
          /\ pulse_count' /= pulse_count => BeatReturned']_vars

\* C6 witness: a heartbeat returned Ok and was counted while the other task's
\* heartbeat was waiting to count its own.
C6_Witness ==
    /\ BeatReturned
    /\ pulse_count = 1
    /\ hb_ok = 1
    /\ \E t \in Tasks : t /= ret.task /\ pc[t] = "hb_count"

\* C7: a heartbeat() that finds the Pulse stopped returns the error, and a
\* heartbeat() returning the error found it stopped and changed none of
\* pulse_count, the last-pulse time and the flag.
C7_StoppedBeatFails ==
    [][/\ \A t \in Tasks :
            (pc[t] = "hb_running" /\ pc'[t] /= "hb_running" /\ ~running) =>
                ret' = [task |-> t, op |-> "heartbeat", value |-> "Err"]
       /\ (ret'.op = "heartbeat" /\ ret'.value = "Err") =>
            /\ ~running
            /\ UNCHANGED <<pulse_count, last_pulse, running>>]_vars

\* C7 witness: heartbeat() failed on a Pulse that was stopped after it had
\* run and counted a beat.
C7_Witness ==
    /\ ret.op = "heartbeat"
    /\ ret.value = "Err"
    /\ pulse_count >= 1
    /\ ~running

\* an is_healthy() returned in the last step, by itself or inside stats()
HealthReturned == ret.op \in {"is_healthy", "stats"}

\* the value that is_healthy() returned
Healthy == IF ret.op = "stats" THEN ret.value.is_healthy ELSE ret.value

C10_StartSetsOrLeaves ==
    [][\A t \in Tasks :
        /\ (pc[t] = "start_running" /\ pc'[t] /= "start_running") =>
            IF running
            THEN /\ ret' = [task |-> t, op |-> "start", value |-> "Ok"]
                 /\ UNCHANGED <<running, last_pulse, pulse_count>>
            ELSE /\ running'
                 /\ pc'[t] = "start_last_pulse"
        /\ (pc[t] = "start_last_pulse" /\ pc'[t] /= "start_last_pulse") =>
            /\ ret' = [task |-> t, op |-> "start", value |-> "Ok"]
            /\ running'
            /\ last_pulse' = Some(now')
            /\ UNCHANGED pulse_count]_vars

\* C10 witness: start() returned from a Pulse that was already running, whose
\* last-pulse time is older than the present instant.
C10_Witness ==
    /\ ret.op = "start"
    /\ running
    /\ last_pulse /= None
    /\ last_pulse[1] < now
    /\ pulse_count >= 1

\* C11: every stop() leaves the Pulse stopped and changes neither pulse_count
\* nor the last-pulse time; on a Pulse that is already stopped it changes
\* nothing, so a second stop() gives the state of the first.
C11_StopIdempotent ==
    [][ret'.op = "stop" =>
        /\ ~running'
        /\ UNCHANGED <<pulse_count, last_pulse>>
        /\ ~running => UNCHANGED <<running, last_pulse, pulse_count>>]_vars

\* C11 witness: stop() returned on a Pulse that had run and counted a beat,
\* which keeps its count and its last-pulse time.
C11_Witness ==
    /\ ret.op = "stop"
    /\ ~running
    /\ pulse_count >= 1
    /\ last_pulse /= None

\* C20: a PulseStats with running = false has is_healthy = false, and one
\* with is_healthy = true has running = true.
C20_StatsConsistent ==
    ret.op = "stats" => (ret.value.is_healthy => ret.value.running)

Occurrences(msgs, m) == Cardinality({i \in DOMAIN msgs : msgs[i] = m})

\* C14: a process_cycle stores its input exactly once, before the provider
\* is called; a cycle that returns Ok has appended to the memory exactly the
\* User input and then the Assistant reply.
C14_InputOnceThenReply ==
    /\ run_pc = "store_input" => Occurrences(messages, input_message) = 0
    /\ run_pc \in {"generate", "store_response"} =>
          /\ messages = Append(cycle_start, input_message)
          /\ Occurrences(messages, input_message) = 1
    /\ (run_pc \in {"sleep", "check"} /\ cycle_result /= "none") =>
          Occurrences(messages, input_message) = 1
    /\ (run_pc \in {"sleep", "check"} /\ cycle_result = "Ok") =>
          /\ Len(messages) = Len(cycle_start) + 2
          /\ SubSeq(messages, 1, Len(cycle_start)) = cycle_start
          /\ messages[Len(cycle_start) + 1] = input_message
          /\ input_message.role = "User"
          /\ messages[Len(cycle_start) + 2].role = "Assistant"
          /\ messages[Len(cycle_start) + 2].content = response

\* C14 witness: a second cycle returned Ok after a first one had stored
\* messages.
C14_Witness ==
    /\ run_pc = "sleep"
    /\ cycle_result = "Ok"
    /\ Len(cycle_start) >= 2
    /\ Len(messages) = Len(cycle_start) + 2

\* C15: the context a process_cycle loads is the last min(N, stored)
\* messages of the memory, N being the configured max_context_messages.
C15_ContextWithinConfigured ==
    run_pc = "store_input" =>
        LET context == SubSeq(conversation, 1, Len(conversation) - 1)
            n == Len(cycle_start)
            k == Min(max_context_messages, n)
        IN  /\ Len(context) <= max_context_messages
            /\ context = SubSeq(cycle_start, n - k + 1, n)

\* C19: the sequence handed to the provider is the context retrieved before
\* the input was stored, then the input as its last element; the input
\* occurs once in it, and it has at most max_context_messages + 1 messages.
C19_ConversationIsContextThenInput ==
    run_pc = "generate" =>
        LET n == Len(conversation)
        IN  /\ n >= 1
            /\ conversation[n] = input_message
            /\ Occurrences(conversation, input_message) = 1
            /\ \E k \in 0..Len(cycle_start) :
                  SubSeq(conversation, 1, n - 1) =
                      SubSeq(cycle_start, Len(cycle_start) - k + 1, Len(cycle_start))
            /\ n <= max_context_messages + 1

\* the User and Assistant messages of msgs, by position
ExchangePositions(msgs) ==
    {i \in DOMAIN msgs : msgs[i].role \in {"User", "Assistant"}}

\* C16: the messages of the request are the User and Assistant messages of
\* the input, in the input's order, each with its content and the role
\* string of its role; System and Tool messages are not among them.
C16_ExchangeIsUserAssistantSubsequence ==
    LET keep == ExchangePositions(gen_input)
        Rank(i) == Cardinality({j \in keep : j <= i})
    IN  /\ Len(gen_request.messages) = Cardinality(keep)
        /\ \A i \in keep :
              /\ gen_request.messages[Rank(i)].content = gen_input[i].content
              /\ gen_request.messages[Rank(i)].role =
                    (IF gen_input[i].role = "User" THEN "user" ELSE "assistant")

\* C16 witness: of a System, a User, a Tool and an Assistant message the
\* request carries the User and the Assistant one.
C16_Witness ==
    /\ Len(gen_input) = 4
    /\ [i \in 1..4 |-> gen_input[i].role] = <<"System", "User", "Tool", "Assistant">>
    /\ gen_input[2].content /= gen_input[4].content
    /\ gen_request.messages = <<[role |-> "user", content |-> gen_input[2].content],
                            [role |-> "assistant", content |-> gen_input[4].content]>>

\* C17: the system field of the request is absent exactly when the input has
\* no System message, and otherwise carries the content of every System
\* message of the input.
C17_SystemCarriesEverySystemMessage ==
    LET sys == {i \in DOMAIN gen_input : gen_input[i].role = "System"}
    IN  /\ (gen_request.system = None) <=> (sys = {})
        /\ gen_request.system /= None =>
              \A i \in sys : contains(gen_request.system[1], gen_input[i].content)

\* a task is inside store, behind its lock
Storing(t) == mem_pc[t] = "store_push"

\* a task is inside retrieve or search, behind its lock
Reading(t) == mem_pc[t] \in {"retrieve_copy", "search_filter"}

\* C18: a task inside store is alone with the list; the list changes only by
\* one message appended; every retrieve and search returns what the call
\* computes from the list of exactly the stores that had returned when it got
\* the lock.
C18_StorageSerialized ==
    /\ [](\A t, u \in Tasks : (t /= u /\ Storing(t)) => ~(Storing(u) \/ Reading(u)))
    /\ [][\/ messages' = messages
          \/ \E m \in {mem_local[t].arg : t \in {u \in Tasks : Storing(u)}} :
                messages' = Append(messages, m)]_vars
    /\ [](mem_result.op = "retrieve" =>
             mem_result.result = retrieve(mem_result.seen, mem_result.arg))
    /\ [](mem_result.op = "search" =>
             mem_result.result = search(mem_result.seen, mem_result.arg))

\* C18 witness: a retrieve returned a stored message while the store of
\* another task waited for the lock.
C18_Witness ==
    /\ mem_result.op = "retrieve"
    /\ Len(mem_result.result) >= 1
    /\ \E u \in Tasks : mem_local[u].op = "store" /\ mem_pc[u] = "store_lock"

\* C12: a heartbeat() called by run() never returns Err, and run() never
\* returns Err.
C12_RunNeverFails ==
    /\ \A t \in Tasks : pc[t] /= "run_failed"
    /\ ret.op = "run" => ret.value = "Ok"

\* the task is in the loop of run()
Looping(t) == caller[t] = "run" /\ pc[t] \notin {"start_running", "start_last_pulse"}

C21_RunIgnoresEarlierStop ==
    /\ [][(run_pc \in {"idle", "returned"} /\ run_pc' = "check") => agent_running']_vars
    /\ []((run_pc \notin {"idle", "returned"} /\ ~stop_seen) => agent_running)
    /\ [][(run_pc /= "returned" /\ run_pc' = "returned") => stop_seen]_vars
    /\ ((run_pc = "check" /\ ~stop_seen /\ cycles < MaxCycles)
            ~> (run_pc = "retrieve" \/ stop_seen))

\* C21 witness: a stop() returned before run() was called, no stop() came
\* since, and run() is in a process_cycle.
C21_Witness ==
    /\ stop_before
    /\ ~stop_seen
    /\ agent_running
    /\ run_pc = "generate"
    /\ run_result = "none"

\* the task holds the lock or waits for it
engaged(l, t) == held(l, t) \/ \E i \in DOMAIN l.queue : l.queue[i].task = t

\* the task is inside a call of start, stop, heartbeat, is_healthy or stats,
\* or at the flag read of run
InCall(t) == pc[t] \notin {"idle", "run_started", "run_beaten", "run_failed", "run_sleep"}

\* C22: a task that asks for the lock of running holds neither of the other
\* two and waits for neither, one that asks for the lock of last_pulse
\* neither holds nor awaits that of pulse_count; and every call of start,
\* stop, heartbeat, is_healthy and stats, and every flag read of run,
\* returns.
C22_LockOrderAndProgress ==
    /\ [][\A t \in Tasks :
            /\ (engaged(running_lock', t) /\ ~engaged(running_lock, t)) =>
                  (~engaged(last_pulse_lock', t) /\ ~engaged(pulse_count_lock', t))
            /\ (engaged(last_pulse_lock', t) /\ ~engaged(last_pulse_lock, t)) =>
                  ~engaged(pulse_count_lock', t)]_vars
    /\ \A t \in Tasks : InCall(t) ~> ~InCall(t)

\* C22 witness: a start() that holds the write lock of running waits for
\* the lock of last_pulse, which the stats() of the other task holds.
C22_Witness ==
    \E t, u \in Tasks :
        /\ pc[t] = "start_last_pulse"
        /\ held(running_lock, t)
        /\ ~held(last_pulse_lock, t)
        /\ pc[u] = "stats_last_pulse"
        /\ held(last_pulse_lock, u)

====
